---- MODULE Spec2Model ----
(***************************************************************************)
(* A model of the retrieval-augmented-generation pipeline:                 *)
(*   - DocumentLoader.chunk_text   (src/document_loader.py)                *)
(*   - VectorStore                 (src/vector_store.py)                   *)
(*   - RAGEngine.query             (src/rag_engine.py)                     *)
(* Python strings are sequences of one-character strings, Python lists are *)
(* sequences, offsets are 0-based as in the source (a sequence position is *)
(* the offset plus one).                                                   *)
(***************************************************************************)
EXTENDS Integers, Sequences, FiniteSets, TLC

VARIABLES
    \* ---- DocumentLoader.chunk_text ----
    text,           \* the text argument
    chunk_size,     \* the chunk_size argument
    chunk_overlap,  \* the chunk_overlap argument
    start,          \* the local `start`
    chunks,         \* the local `chunks`, the list that is returned
    pc,             \* "call", "loop", "done" (returned), "fault" (IndexError)
    seen,           \* history: the values of `start` the loop has scanned from
    \* ---- VectorStore ----
    index,          \* self.index: the vectors of the flat L2 index, in order
    metadata,       \* self.metadata
    files,          \* the file system: what each path holds
    out,            \* the last call: its name, arguments and outcome
    rt,             \* history: how far a save, clear, load sequence has got
    pre,            \* history: the store as it was when that clear began
    \* ---- two callers of one VectorStore ----
    adder,          \* the caller inside add_documents: its place and locals
    searcher        \* the caller inside search: its place and locals

chunkVars == <<text, chunk_size, chunk_overlap, start, chunks, pc, seen>>

storeVars == <<index, metadata, files, out, rt, pre>>

raceVars == <<adder, searcher>>

vars == <<text, chunk_size, chunk_overlap, start, chunks, pc, seen,
          index, metadata, files, out, rt, pre, adder, searcher>>

Max(a, b) == IF a >= b THEN a ELSE b

Min(a, b) == IF a <= b THEN a ELSE b

(***************************************************************************)
(* Bounds of the model.                                                    *)
(***************************************************************************)
MaxLen == 5

MaxChunkSize == 4

\* One letter, one blank (whitespace, no boundary), one full stop (boundary,
\* no whitespace) and the newline (both).
Alphabet == {"a", " ", ".", "\n"}

TextsUpTo(n) == UNION {[1..k -> Alphabet] : k \in 0..n}

(***************************************************************************)
(* DocumentLoader.chunk_text                                               *)
(***************************************************************************)
\* The characters the backward scan breaks at (document_loader.py:107).
BoundaryChars == {"\n", "IDEOGRAPHIC FULL STOP", ".", "!", "?"}

\* The characters str.strip() removes.
Whitespace == {" ", "\n", "\t", "\r", "VT", "FF"}

\* The backward scan looks at most this far back from the candidate end.
SnapWindow == 100

\* Whether the Python subscript t[i] raises IndexError.
IndexFaults(t, i) == i >= Len(t) \/ i < -Len(t)

\* The Python subscript t[i]: a negative i counts from the end.
CharAt(t, i) == IF i >= 0 THEN t[i + 1] ELSE t[Len(t) + i + 1]

\* The Python slice t[s:e]: a negative bound counts from the end, both are
\* clamped to the string, and the slice is empty when they cross.
PySlice(t, s, e) ==
    LET n  == Len(t)
        lo == IF s < 0 THEN Max(n + s, 0) ELSE Min(s, n)
        hi == IF e < 0 THEN Max(n + e, 0) ELSE Min(e, n)
    IN  IF lo >= hi THEN <<>> ELSE SubSeq(t, lo + 1, hi)

RECURSIVE LStrip(_)
LStrip(t) ==
    IF t = <<>> THEN <<>>
    ELSE IF Head(t) \in Whitespace THEN LStrip(Tail(t)) ELSE t

RECURSIVE RStrip(_)
RStrip(t) ==
    IF t = <<>> THEN <<>>
    ELSE IF t[Len(t)] \in Whitespace THEN RStrip(SubSeq(t, 1, Len(t) - 1)) ELSE t

\* str.strip()
Strip(t) == RStrip(LStrip(t))

\* for i in range(end, max(start, end - 100), -1): the scan from i down to
\* lo + 1. The result is the new end, or the fault of reading t[i].
RECURSIVE SnapScan(_, _, _, _)
SnapScan(t, i, lo, end) ==
    IF i <= lo THEN [fault |-> FALSE, end |-> end]
    ELSE IF IndexFaults(t, i) THEN [fault |-> TRUE, end |-> end]
    ELSE IF CharAt(t, i) \in BoundaryChars THEN [fault |-> FALSE, end |-> i + 1]
    ELSE SnapScan(t, i - 1, lo, end)

\* Lines 101-109: the end of the window that starts at s.
WindowEnd(t, s, size) ==
    LET end == s + size
    IN  IF end < Len(t)
        THEN SnapScan(t, end, Max(s, end - SnapWindow), end)
        ELSE [fault |-> FALSE, end |-> end]

\* A variant of NextStart that resumes one offset past the overlap.
NextStartSkipsOne(t, end, overlap) ==
    IF end < Len(t) THEN end - overlap + 1 ELSE end

\* Line 120: the next start.
NextStart(t, end, overlap) == IF end < Len(t) THEN end - overlap ELSE end

\* Lines 111-117: the chunk list after the window [s, end).
Emit(cs, t, s, end) ==
    LET body == Strip(PySlice(t, s, end))
    IN  IF body # <<>>
        THEN Append(cs, [text |-> body, start |-> s, end |-> end])
        ELSE cs

\* Lines 94-98: the short-circuit, or the entry of the loop.
ChunkEnter ==
    /\ pc = "call"
    /\ IF Len(text) <= chunk_size
       THEN /\ chunks' = <<[text |-> text, start |-> 0, end |-> Len(text)]>>
            /\ pc' = "done"
       ELSE /\ chunks' = <<>>
            /\ pc' = "loop"
    /\ start' = 0
    /\ UNCHANGED <<text, chunk_size, chunk_overlap, seen>>
    /\ UNCHANGED <<storeVars, raceVars>>

\* Lines 100-120: one pass of the while loop, from a start not scanned before
\* (the loop's pass depends on `start` alone, so a pass from a start already
\* in `seen` repeats for ever: the model stops there).
ChunkWindow ==
    /\ pc = "loop"
    /\ start \notin seen
    /\ LET w == WindowEnd(text, start, chunk_size)
       IN  IF w.fault
           THEN /\ pc' = "fault"
                /\ UNCHANGED <<start, chunks>>
           ELSE /\ chunks' = Emit(chunks, text, start, w.end)
                /\ start' = NextStart(text, w.end, chunk_overlap)
                /\ pc' = IF start' < Len(text) THEN "loop" ELSE "done"
    /\ seen' = seen \cup {start}
    /\ UNCHANGED <<text, chunk_size, chunk_overlap>>
    /\ UNCHANGED <<storeVars, raceVars>>

(***************************************************************************)
(* VectorStore                                                             *)
(***************************************************************************)
MaxEntries == 3

MaxBatch == 2

MaxTopK == 3

\* The entries a store holds in the runs that save and load it.
MaxSaved == 2

\* The hits of one answer of the numeric store.
MaxHits == 2

\* The embedding provider, SentenceTransformer.encode: a fixed map from a text
\* to its vector. "fish" lies at the same distance from "cat" and from "dog".
Encode(t) ==
    CASE t = "cat"  -> <<0, 0>>
      [] t = "dog"  -> <<2, 0>>
      [] t = "fish" -> <<1, 0>>
      [] OTHER      -> <<0, 2>>

ModelName == "all-MiniLM-L6-v2"

\* self.dimension, read from the model at construction.
Dimension == Len(Encode("cat"))

\* A mapping key that is absent is <<>>, one that is present is <<value>>.
Absent == <<>>

NoSource == "None"

EmptyMapping == "{}"

\* A chunk as the chunker makes it (with start and end) and a bare one.
ChunkPool ==
    { [text |-> "cat", start |-> <<0>>, end |-> <<3>>],
      [text |-> "dog", start |-> Absent, end |-> Absent] }

SourcePool == {NoSource, "a.txt"}

QueryPool == {"cat", "fish"}

Batches(pool, n) == UNION {[1..k -> pool] : k \in 0..n}

\* The squared Euclidean distance of IndexFlatL2.
RECURSIVE L2(_, _)
L2(u, v) ==
    IF u = <<>> THEN 0
    ELSE (Head(u) - Head(v)) * (Head(u) - Head(v)) + L2(Tail(u), Tail(v))

\* A variant of MetaEntry that numbers the entries from 1.
MetaEntryFromOne(md, chunk, source_info) ==
    [ text        |-> chunk.text,
      chunk_index |-> Len(md) + 1,
      source      |-> IF source_info = NoSource THEN EmptyMapping ELSE source_info,
      start       |-> chunk.start,
      end         |-> chunk.end ]

\* Lines 57-68: one metadata entry, appended to md.
MetaEntry(md, chunk, source_info) ==
    [ text        |-> chunk.text,
      chunk_index |-> Len(md),
      source      |-> IF source_info = NoSource THEN EmptyMapping ELSE source_info,
      start       |-> chunk.start,
      end         |-> chunk.end ]

\* Lines 56-68: the loop over the chunks.
RECURSIVE AppendMeta(_, _, _)
AppendMeta(md, chs, source_info) ==
    IF chs = <<>> THEN md
    ELSE AppendMeta(Append(md, MetaEntry(md, Head(chs), source_info)),
                    Tail(chs), source_info)

\* Lines 46-53: the vectors of the batch, in the order of the chunks.
EncodeAll(chs) == [i \in 1..Len(chs) |-> Encode(chs[i].text)]

\* A variant of AddOutcome that writes the metadata before it embeds.
AddOutcomeMetadataFirst(idx, md, chs, source_info, encOk) ==
    IF chs = <<>>
    THEN [index |-> idx, metadata |-> md, raised |-> FALSE, encoded |-> FALSE]
    ELSE IF ~encOk
    THEN [index |-> idx, metadata |-> AppendMeta(md, chs, source_info),
          raised |-> TRUE, encoded |-> TRUE]
    ELSE [ index    |-> idx \o EncodeAll(chs),
           metadata |-> AppendMeta(md, chs, source_info),
           raised   |-> FALSE,
           encoded  |-> TRUE ]

\* add_documents: the store after the call; encOk is whether the embedding
\* provider answers.
AddOutcome(idx, md, chs, source_info, encOk) ==
    IF chs = <<>>
    THEN [index |-> idx, metadata |-> md, raised |-> FALSE, encoded |-> FALSE]
    ELSE IF ~encOk
    THEN [index |-> idx, metadata |-> md, raised |-> TRUE, encoded |-> TRUE]
    ELSE [ index    |-> idx \o EncodeAll(chs),
           metadata |-> AppendMeta(md, chs, source_info),
           raised   |-> FALSE,
           encoded  |-> TRUE ]

\* Whether position p (0-based) is nearer to q than p2, ties to the lower
\* position.
Nearer(idx, q, p, p2) ==
    \/ L2(idx[p + 1], q) < L2(idx[p2 + 1], q)
    \/ L2(idx[p + 1], q) = L2(idx[p2 + 1], q) /\ p <= p2

\* index.search: the k nearest positions, nearest first, each with its
\* distance.
RECURSIVE IndexSearch(_, _, _, _)
IndexSearch(idx, q, k, taken) ==
    LET left == (0..(Len(idx) - 1)) \ taken
    IN  IF k <= 0 \/ left = {} THEN <<>>
        ELSE LET p == CHOOSE x \in left : \A y \in left : Nearer(idx, q, x, y)
             IN  <<[idx |-> p, distance |-> L2(idx[p + 1], q)]>>
                 \o IndexSearch(idx, q, k - 1, taken \cup {p})

\* The Python subscript of a list: a negative i counts from the end.
ListItem(l, i) == IF i >= 0 THEN l[i + 1] ELSE l[Len(l) + i + 1]

\* Lines 95-101: the Retrieval Result of one hit. The similarity 1/(1+d) is
\* the fraction <<1, 1 + d>>.
ResultOf(md, hit) ==
    LET e == ListItem(md, hit.idx)
    IN  [ text        |-> e.text,
          score       |-> hit.distance,
          similarity  |-> <<1, 1 + hit.distance>>,
          metadata    |-> e.source,
          chunk_index |-> e.chunk_index ]

\* A variant of BuildResults whose guard also skips the last entry.
RECURSIVE BuildResultsSkipsLast(_, _, _)
BuildResultsSkipsLast(md, hits, acc) ==
    IF hits = <<>> THEN [fault |-> FALSE, results |-> acc]
    ELSE LET h == Head(hits)
         IN  IF h.idx < Len(md) - 1
             THEN IF h.idx < -Len(md)
                  THEN [fault |-> TRUE, results |-> acc]
                  ELSE BuildResultsSkipsLast(md, Tail(hits), Append(acc, ResultOf(md, h)))
             ELSE BuildResultsSkipsLast(md, Tail(hits), acc)

\* Lines 92-104: the loop over the hits; a subscript out of the list faults.
RECURSIVE BuildResults(_, _, _)
BuildResults(md, hits, acc) ==
    IF hits = <<>> THEN [fault |-> FALSE, results |-> acc]
    ELSE LET h == Head(hits)
         IN  IF h.idx < Len(md)
             THEN IF h.idx < -Len(md)
                  THEN [fault |-> TRUE, results |-> acc]
                  ELSE BuildResults(md, Tail(hits), Append(acc, ResultOf(md, h)))
             ELSE BuildResults(md, Tail(hits), acc)

\* search
SearchOutcome(idx, md, query, top_k, encOk) ==
    IF Len(idx) = 0
    THEN [raised |-> FALSE, encoded |-> FALSE, results |-> <<>>]
    ELSE IF ~encOk
    THEN [raised |-> TRUE, encoded |-> TRUE, results |-> <<>>]
    ELSE LET hits == IndexSearch(idx, Encode(query), Min(top_k, Len(idx)), {})
             b    == BuildResults(md, hits, <<>>)
         IN  [raised |-> b.fault, encoded |-> TRUE, results |-> b.results]

\* get_stats
GetStats(idx) ==
    [total_chunks |-> Len(idx), dimension |-> Dimension, model |-> ModelName]

NoFile == [kind |-> "none", data |-> <<>>]

Paths == {"p1", "p2"}

\* save: faiss.write_index, then pickle.dump.
SaveOutcome(fs, idx, md, index_path, metadata_path) ==
    LET fs1 == [fs EXCEPT ![index_path] = [kind |-> "index", data |-> idx]]
    IN  [fs1 EXCEPT ![metadata_path] = [kind |-> "meta", data |-> md]]

\* A variant of LoadOutcome that reads the index and leaves the metadata.
LoadOutcomeIndexOnly(fs, idx, md, index_path, metadata_path) ==
    LET fi == fs[index_path]
    IN  IF fi.kind = "meta"
        THEN [index |-> idx, metadata |-> md, raised |-> TRUE]
        ELSE [index |-> IF fi.kind = "index" THEN fi.data ELSE idx,
              metadata |-> md, raised |-> FALSE]

\* load: each artifact is read if it exists; reading a file of the other
\* kind raises, and what was assigned before stays assigned.
LoadOutcome(fs, idx, md, index_path, metadata_path) ==
    LET fi == fs[index_path]
        fm == fs[metadata_path]
    IN  IF fi.kind = "meta"
        THEN [index |-> idx, metadata |-> md, raised |-> TRUE]
        ELSE LET idx1 == IF fi.kind = "index" THEN fi.data ELSE idx
             IN  IF fm.kind = "index"
                 THEN [index |-> idx1, metadata |-> md, raised |-> TRUE]
                 ELSE [ index    |-> idx1,
                        metadata |-> IF fm.kind = "meta" THEN fm.data ELSE md,
                        raised   |-> FALSE ]

AdderIdle == [pc |-> "idle"]

SearcherIdle == [pc |-> "idle"]

NoRoundTrip == [phase |-> "none", index_path |-> "", metadata_path |-> ""]

EmptyStore == [index |-> <<>>, metadata |-> <<>>]

\* VectorStore.__init__, before any call.
StoreIdle ==
    /\ index = <<>>
    /\ metadata = <<>>
    /\ files = [p \in Paths |-> NoFile]
    /\ out = [op |-> "init"]
    /\ rt = NoRoundTrip
    /\ pre = EmptyStore
    /\ adder = AdderIdle
    /\ searcher = SearcherIdle

AddDocuments(chs, source_info, encOk) ==
    /\ LET r == AddOutcome(index, metadata, chs, source_info, encOk)
       IN  /\ index' = r.index
           /\ metadata' = r.metadata
           /\ out' = [op |-> "add_documents", n |-> Len(chs),
                      raised |-> r.raised, encoded |-> r.encoded]
    /\ rt' = NoRoundTrip
    /\ pre' = EmptyStore
    /\ UNCHANGED files
    /\ UNCHANGED <<chunkVars, raceVars>>

Search(query, top_k, encOk) ==
    /\ LET r == SearchOutcome(index, metadata, query, top_k, encOk)
       IN  out' = [op |-> "search", query |-> query, top_k |-> top_k,
                   raised |-> r.raised, encoded |-> r.encoded,
                   results |-> r.results]
    /\ rt' = NoRoundTrip
    /\ pre' = EmptyStore
    /\ UNCHANGED <<index, metadata, files>>
    /\ UNCHANGED <<chunkVars, raceVars>>

Clear ==
    /\ index' = <<>>
    /\ metadata' = <<>>
    /\ out' = [op |-> "clear"]
    /\ IF rt.phase = "saved"
       THEN /\ rt' = [rt EXCEPT !.phase = "cleared"]
            /\ pre' = [index |-> index, metadata |-> metadata]
       ELSE /\ rt' = NoRoundTrip
            /\ pre' = EmptyStore
    /\ UNCHANGED files
    /\ UNCHANGED <<chunkVars, raceVars>>

Save(index_path, metadata_path) ==
    /\ files' = SaveOutcome(files, index, metadata, index_path, metadata_path)
    /\ out' = [op |-> "save"]
    /\ rt' = [phase |-> "saved", index_path |-> index_path,
              metadata_path |-> metadata_path]
    /\ pre' = EmptyStore
    /\ UNCHANGED <<index, metadata>>
    /\ UNCHANGED <<chunkVars, raceVars>>

Load(index_path, metadata_path) ==
    /\ LET r == LoadOutcome(files, index, metadata, index_path, metadata_path)
       IN  /\ index' = r.index
           /\ metadata' = r.metadata
           /\ out' = [op |-> "load", raised |-> r.raised]
    /\ IF rt.phase = "cleared" /\ rt.index_path = index_path
                               /\ rt.metadata_path = metadata_path
       THEN /\ rt' = [rt EXCEPT !.phase = "loaded"]
            /\ pre' = pre
       ELSE /\ rt' = NoRoundTrip
            /\ pre' = EmptyStore
    /\ UNCHANGED files
    /\ UNCHANGED <<chunkVars, raceVars>>

(***************************************************************************)
(* RAGEngine                                                               *)
(***************************************************************************)
\* What the generation provider does with one request: it answers with a
\* text (which may be empty), or the call fails with a message (which may be
\* empty), or the response has no choice to read the answer from.
GenPool ==
    { [kind |-> "answer",    text |-> <<"It", "sat.">>],
      [kind |-> "answer",    text |-> <<>>],
      [kind |-> "error",     text |-> <<"rate", "limit">>],
      [kind |-> "error",     text |-> <<>>],
      [kind |-> "malformed", text |-> <<"list", "index", "out", "of", "range">>] }

\* _build_context: the sentinel, or one labelled part per document, the
\* labels counting from 1.
BuildContext(docs) ==
    IF docs = <<>>
    THEN [found |-> FALSE, parts |-> <<>>]
    ELSE [found |-> TRUE,
          parts |-> [i \in 1..Len(docs) |-> [label |-> i, text |-> docs[i].text]]]

\* _build_prompt
BuildPrompt(question, context) == [question |-> question, context |-> context]

\* Lines 54-65: the answer, and the requests sent to the provider.
Generate(prompt, gen) ==
    [ answer   |-> IF gen.kind = "answer" THEN gen.text
                   ELSE <<"Error generating answer: ">> \o gen.text,
      requests |-> <<prompt>> ]

\* A variant of QueryOutcome that gives up the retrieval when the generation
\* fails.
QueryOutcomeDropsRetrieval(idx, md, question, top_k, encOk, gen) ==
    LET s == SearchOutcome(idx, md, question, top_k, encOk)
    IN  IF s.raised
        THEN [raised |-> TRUE, answer |-> <<>>, retrieved_docs |-> <<>>,
              context |-> BuildContext(<<>>), requests |-> <<>>]
        ELSE LET context == BuildContext(s.results)
                 g == Generate(BuildPrompt(question, context), gen)
             IN  IF gen.kind = "answer"
                 THEN [raised |-> FALSE, answer |-> g.answer,
                       retrieved_docs |-> s.results, context |-> context,
                       requests |-> g.requests]
                 ELSE [raised |-> FALSE, answer |-> g.answer,
                       retrieved_docs |-> <<>>, context |-> BuildContext(<<>>),
                       requests |-> g.requests]

\* query: the search may raise (nothing catches it); the generation may not.
QueryOutcome(idx, md, question, top_k, encOk, gen) ==
    LET s == SearchOutcome(idx, md, question, top_k, encOk)
    IN  IF s.raised
        THEN [raised |-> TRUE, answer |-> <<>>, retrieved_docs |-> <<>>,
              context |-> BuildContext(<<>>), requests |-> <<>>]
        ELSE LET context == BuildContext(s.results)
                 g == Generate(BuildPrompt(question, context), gen)
             IN  [raised |-> FALSE, answer |-> g.answer,
                  retrieved_docs |-> s.results, context |-> context,
                  requests |-> g.requests]

Query(question, top_k, encOk, gen) ==
    /\ LET r == QueryOutcome(index, metadata, question, top_k, encOk, gen)
       IN  out' = [op |-> "query", query |-> question, top_k |-> top_k,
                   gen |-> gen.kind, raised |-> r.raised, answer |-> r.answer,
                   retrieved_docs |-> r.retrieved_docs, context |-> r.context,
                   requests |-> r.requests]
    /\ rt' = NoRoundTrip
    /\ pre' = EmptyStore
    /\ UNCHANGED <<index, metadata, files>>
    /\ UNCHANGED <<chunkVars, raceVars>>

ChunkerIdle ==
    /\ text = <<>>
    /\ chunk_size = 1
    /\ chunk_overlap = 0
    /\ start = 0
    /\ chunks = <<>>
    /\ pc = "idle"
    /\ seen = {}

InitChunker ==
    /\ text \in TextsUpTo(MaxLen)
    /\ chunk_size \in 1..MaxChunkSize
    /\ chunk_overlap \in 0..(chunk_size - 1)
    /\ start = 0
    /\ chunks = <<>>
    /\ pc = "call"
    /\ seen = {}
    /\ StoreIdle

NextChunker == ChunkEnter \/ ChunkWindow

SpecChunker == InitChunker /\ [][NextChunker]_vars

InitStore == ChunkerIdle /\ StoreIdle

\* The runs stop adding when the store holds cap entries.
Room(chs, cap) ==
    /\ Len(index) + Len(chs) <= cap
    /\ Len(metadata) + Len(chs) <= cap

NextStore ==
    \/ \E chs \in Batches(ChunkPool, MaxBatch), s \in SourcePool, ok \in BOOLEAN :
           Room(chs, MaxEntries) /\ AddDocuments(chs, s, ok)
    \/ \E q \in QueryPool, k \in 1..MaxTopK, ok \in BOOLEAN : Search(q, k, ok)
    \/ Clear

SpecStore == InitStore /\ [][NextStore]_vars

NextEngine ==
    \/ \E chs \in Batches(ChunkPool, MaxBatch) :
           Room(chs, MaxEntries) /\ AddDocuments(chs, "a.txt", TRUE)
    \/ \E q \in QueryPool, k \in 1..MaxTopK, ok \in BOOLEAN, g \in GenPool :
           Query(q, k, ok, g)

SpecEngine == InitStore /\ [][NextEngine]_vars

NextPersist ==
    \/ \E chs \in Batches(ChunkPool, MaxBatch) :
           Room(chs, MaxSaved) /\ AddDocuments(chs, "a.txt", TRUE)
    \/ Clear
    \/ \E ip \in Paths, mp \in Paths : Save(ip, mp)
    \/ \E ip \in Paths, mp \in Paths : Load(ip, mp)

SpecPersist == InitStore /\ [][NextPersist]_vars

(***************************************************************************)
(* search, with the answer of the numeric store as an input                *)
(***************************************************************************)
\* The labels index.search may return: a position, a label past the last
\* position, or the -1 that fills an answer with fewer than k neighbours.
HitLabels == -1..MaxEntries

HitPool == {[idx |-> l, distance |-> d] : l \in HitLabels, d \in 0..1}

HitLists == UNION {[1..k -> HitPool] : k \in 1..MaxHits}

\* Lines 91-104 for the answer `hits` of index.search.
SearchBuild(hits) ==
    /\ Len(index) # 0
    /\ LET b == BuildResults(metadata, hits, <<>>)
       IN  out' = [op |-> "build", hits |-> hits, raised |-> b.fault,
                   results |-> b.results]
    /\ rt' = NoRoundTrip
    /\ pre' = EmptyStore
    /\ UNCHANGED <<index, metadata, files>>
    /\ UNCHANGED <<chunkVars, raceVars>>

NextHits ==
    \/ \E chs \in Batches(ChunkPool, MaxBatch) :
           Room(chs, MaxEntries) /\ AddDocuments(chs, "a.txt", TRUE)
    \/ \E hits \in HitLists : SearchBuild(hits)

SpecHits == InitStore /\ [][NextHits]_vars

(***************************************************************************)
(* Two callers of one VectorStore: one in add_documents, one in search.    *)
(* Nothing in the class excludes one from the other, so the calls          *)
(* interleave between statements. index.add and index.search are taken as  *)
(* single steps.                                                           *)
(***************************************************************************)
\* Lines 42-43: the call, and the return for an empty batch.
AddCall(chs, source_info) ==
    /\ adder.pc = "idle"
    /\ adder' = IF chs = <<>> THEN AdderIdle
                ELSE [pc |-> "encode", chunks |-> chs, source |-> source_info]
    /\ UNCHANGED <<storeVars, chunkVars, searcher>>

\* Lines 46-50: the embedding; a failure ends the call.
AddEncode(encOk) ==
    /\ adder.pc = "encode"
    /\ adder' = IF encOk
                THEN [adder EXCEPT !.pc = "index_add"]
                ELSE AdderIdle
    /\ UNCHANGED <<storeVars, chunkVars, searcher>>

\* Line 53: self.index.add(embeddings).
AddIndex ==
    /\ adder.pc = "index_add"
    /\ index' = index \o EncodeAll(adder.chunks)
    /\ adder' = [pc |-> "metadata", chunks |-> adder.chunks,
                 source |-> adder.source, i |-> 1]
    /\ UNCHANGED <<metadata, files, out, rt, pre, chunkVars, searcher>>

\* Lines 56-68: one pass of the loop over the chunks.
AddMetadata ==
    /\ adder.pc = "metadata"
    /\ metadata' = Append(metadata,
                          MetaEntry(metadata, adder.chunks[adder.i], adder.source))
    /\ adder' = IF adder.i = Len(adder.chunks) THEN AdderIdle
                ELSE [adder EXCEPT !.i = adder.i + 1]
    /\ UNCHANGED <<index, files, out, rt, pre, chunkVars, searcher>>

\* The call of search.
SearchCall(query, top_k) ==
    /\ searcher.pc = "idle"
    /\ searcher' = [pc |-> "check", query |-> query, top_k |-> top_k]
    /\ UNCHANGED <<storeVars, chunkVars, adder>>

\* Lines 81-82: the test of self.index.ntotal.
SearchCheck ==
    /\ searcher.pc = "check"
    /\ IF Len(index) = 0
       THEN /\ searcher' = SearcherIdle
            /\ out' = [op |-> "search", query |-> searcher.query,
                       top_k |-> searcher.top_k, raised |-> FALSE,
                       encoded |-> FALSE, results |-> <<>>]
       ELSE /\ searcher' = [searcher EXCEPT !.pc = "encode"]
            /\ out' = out
    /\ UNCHANGED <<index, metadata, files, rt, pre, chunkVars, adder>>

\* Lines 85-86: the embedding of the query.
SearchEncode ==
    /\ searcher.pc = "encode"
    /\ searcher' = [searcher EXCEPT !.pc = "search"]
    /\ UNCHANGED <<storeVars, chunkVars, adder>>

\* Line 89: self.index.search(query_embedding, min(top_k, self.index.ntotal)).
SearchIndex ==
    /\ searcher.pc = "search"
    /\ searcher' = [pc |-> "build", query |-> searcher.query,
                    top_k |-> searcher.top_k,
                    hits |-> IndexSearch(index, Encode(searcher.query),
                                         Min(searcher.top_k, Len(index)), {}),
                    results |-> <<>>]
    /\ UNCHANGED <<storeVars, chunkVars, adder>>

\* Lines 93-104: one pass of the loop over the hits, or the return.
SearchResult ==
    /\ searcher.pc = "build"
    /\ IF searcher.hits = <<>>
       THEN /\ searcher' = SearcherIdle
            /\ out' = [op |-> "search", query |-> searcher.query,
                       top_k |-> searcher.top_k, raised |-> FALSE,
                       encoded |-> TRUE, results |-> searcher.results]
       ELSE LET b == BuildResults(metadata, <<Head(searcher.hits)>>, searcher.results)
            IN  /\ searcher' = [searcher EXCEPT !.hits = Tail(searcher.hits),
                                                !.results = b.results]
                /\ out' = out
    /\ UNCHANGED <<index, metadata, files, rt, pre, chunkVars, adder>>

\* The places where the next statement of search reads the store.
SearcherReads == searcher.pc \in {"check", "search", "build"}

NextRace ==
    \/ \E chs \in Batches(ChunkPool, MaxBatch) :
           Room(chs, MaxEntries) /\ AddCall(chs, "a.txt")
    \/ \E ok \in BOOLEAN : AddEncode(ok)
    \/ AddIndex
    \/ AddMetadata
    \/ \E q \in QueryPool, k \in 1..MaxTopK : SearchCall(q, k)
    \/ SearchCheck
    \/ SearchEncode
    \/ SearchIndex
    \/ SearchResult

SpecRace == InitStore /\ [][NextRace]_vars

(***************************************************************************)
(* Claims about DocumentLoader.chunk_text                                  *)
(***************************************************************************)
\* Offset o of the text lies in the span of a returned chunk.
Covered(o) == \E j \in 1..Len(chunks) : chunks[j].start <= o /\ o < chunks[j].end

\* C1: chunk_text terminates for 0 <= chunk_overlap < chunk_size. A pass of the
\* loop depends on `start` alone, so the loop ends exactly when it never comes
\* back to a start it has scanned from: the loop is never at a start in `seen`.
C1_Terminates == ~(pc = "loop" /\ start \in seen)

\* C3: for len(text) > chunk_size, every returned chunk has
\* 0 <= start < end <= len(text).
C3_SpanInText ==
    (pc = "done" /\ Len(text) > chunk_size) =>
        \A j \in 1..Len(chunks) :
            /\ 0 <= chunks[j].start
            /\ chunks[j].start < chunks[j].end
            /\ chunks[j].end <= Len(text)

\* C8, as stated: the spans of the returned chunks cover every offset of the
\* text.
C8_SpansCoverText == pc = "done" => \A o \in 0..(Len(text) - 1) : Covered(o)

\* C8, amended: the spans of the returned chunks cover every offset of the
\* text that holds a character other than whitespace.
C8_SpansCoverNonBlank ==
    pc = "done" =>
        \A o \in 0..(Len(text) - 1) : text[o + 1] \notin Whitespace => Covered(o)

C8_Witness ==
    /\ pc = "done"
    /\ Len(text) > chunk_size
    /\ Len(chunks) >= 2
    /\ \E o \in 0..(Len(text) - 1) : ~Covered(o)
    /\ \E o \in 0..(Len(text) - 1) : text[o + 1] \notin Whitespace

\* C11: for len(text) > chunk_size, the boundary search only moves a cut back
\* inside the window, so every chunk spans at most chunk_size characters:
\* end - start <= chunk_size.
C11_ChunkWithinSize ==
    (pc \in {"loop", "done"} /\ Len(text) > chunk_size) =>
        \A j \in 1..Len(chunks) : chunks[j].end - chunks[j].start <= chunk_size

(***************************************************************************)
(* Claims about the VectorStore and the RAGEngine                          *)
(***************************************************************************)
\* The vector at each position of the numeric store is the embedding of the
\* text of the metadata entry at that position.
Parallel ==
    /\ Len(index) = Len(metadata)
    /\ \A i \in 1..Len(metadata) : metadata[i].chunk_index = i - 1

\* C2: after any sequence of add_documents calls (completed, or aborted by the
\* embedding provider) and clear calls on a new store, the numeric store and
\* the metadata have the same length, entry i has chunk_index i (so N chunks
\* added to an empty store are numbered 0..N-1 in the order they were given),
\* and get_stats().total_chunks is that length.
C2_StoreParallel ==
    /\ Parallel
    /\ GetStats(index).total_chunks = Len(metadata)
    /\ \A i \in 1..Len(metadata) : index[i] = Encode(metadata[i].text)

C2_Witness ==
    /\ out.op = "add_documents" /\ ~out.raised
    /\ Len(metadata) = MaxEntries
    /\ metadata[MaxEntries].chunk_index = MaxEntries - 1

\* C5: a step of add_documents in which the embedding provider fails leaves the
\* numeric store and the metadata exactly as they were.
C5_FailedAddChangesNothing ==
    [][(out'.op = "add_documents" /\ out'.raised)
          => (index' = index /\ metadata' = metadata)]_vars

C5_Witness ==
    /\ out.op = "add_documents" /\ out.raised /\ out.n >= 2
    /\ Len(metadata) >= 1

\* The distance of the entry at 0-based position p from the query.
DistanceAt(p, query) == L2(index[p + 1], Encode(query))

\* C6: on a store of n >= 1 parallel entries, a search with top_k >= 1 that the
\* embedding provider answers returns min(top_k, n) results of distinct
\* entries, by ascending distance; each carries the text, chunk_index and
\* source of one entry and that entry's distance from the query, and no entry
\* left out is nearer than a returned one. On an empty store the search
\* returns nothing and the embedding provider is not called.
C6_SearchResults ==
    (out.op = "search" /\ Parallel) =>
        LET n == Len(metadata)
            r == out.results
        IN  IF n = 0
            THEN r = <<>> /\ ~out.encoded /\ ~out.raised
            ELSE out.encoded /\
                 (~out.raised =>
                    /\ Len(r) = Min(out.top_k, n)
                    /\ \A j \in 1..(Len(r) - 1) : r[j].score <= r[j + 1].score
                    /\ \A j \in 1..Len(r) :
                          /\ r[j].chunk_index \in 0..(n - 1)
                          /\ r[j].text = metadata[r[j].chunk_index + 1].text
                          /\ r[j].metadata = metadata[r[j].chunk_index + 1].source
                          /\ r[j].score = DistanceAt(r[j].chunk_index, out.query)
                          /\ r[j].similarity = <<1, 1 + r[j].score>>
                    /\ \A j, l \in 1..Len(r) :
                          j # l => r[j].chunk_index # r[l].chunk_index
                    /\ \A p \in 0..(n - 1) :
                          (\A j \in 1..Len(r) : r[j].chunk_index # p)
                              => \A j \in 1..Len(r) : r[j].score <= DistanceAt(p, out.query))

C6_Witness ==
    /\ out.op = "search" /\ ~out.raised
    /\ Len(metadata) = MaxEntries
    /\ Len(out.results) = 2
    /\ out.results[1].score < out.results[2].score
    /\ out.results[1].chunk_index > out.results[2].chunk_index

C6_WitnessEmpty == out.op = "search" /\ Len(metadata) = 0 /\ out.results = <<>>

\* C4: when the generation provider fails in a query, the query does not
\* raise; the answer is a non-empty error message, retrieved_docs and context
\* are what the search and the context assembly produced, and the provider
\* got one request.
C4_GenerationFailureIsAnAnswer ==
    (out.op = "query" /\ out.gen # "answer" /\ ~out.raised) =>
        LET s == SearchOutcome(index, metadata, out.query, out.top_k, TRUE)
        IN  /\ out.answer # <<>>
            /\ Head(out.answer) = "Error generating answer: "
            /\ out.retrieved_docs = s.results
            /\ out.context = BuildContext(s.results)
            /\ Len(out.requests) = 1

C4_Witness ==
    /\ out.op = "query" /\ out.gen = "error" /\ ~out.raised
    /\ Len(out.answer) = 1
    /\ Len(out.retrieved_docs) >= 2
    /\ out.context.found

RECURSIVE InRangeResults(_)
InRangeResults(hits) ==
    IF hits = <<>> THEN <<>>
    ELSE LET h == Head(hits)
         IN  IF 0 <= h.idx /\ h.idx < Len(metadata)
             THEN <<[text |-> metadata[h.idx + 1].text,
                     chunk_index |-> metadata[h.idx + 1].chunk_index]>>
                  \o InRangeResults(Tail(hits))
             ELSE InRangeResults(Tail(hits))

\* C9: a hit whose label is not a position of the metadata (too large, or
\* negative) gives no result and no fault; every result comes from the entry
\* at the position of its hit.
C9_OutOfRangeHitsSkipped ==
    out.op = "build" =>
        /\ ~out.raised
        /\ [j \in 1..Len(out.results) |->
               [text |-> out.results[j].text,
                chunk_index |-> out.results[j].chunk_index]]
           = InRangeResults(out.hits)

\* C10: a search never reads the store while the numeric store and the
\* metadata differ in length.
C10_SearchSeesWholeAdds == SearcherReads => Len(index) = Len(metadata)

====
